---- MODULE Spec2Model ----
(***************************************************************************)
(* Model of app.py, the Local Food Wastage Management System: the SQLite   *)
(* store with its four tables, the CRUD functions, setup_database and the  *)
(* queries of the "View Records" and "Data Analysis" pages.                *)
(*                                                                         *)
(* Columns that no checked property reads (Type, Address, City, Contact,   *)
(* Food_Name, Provider_Type, Location, Food_Type, Meal_Type, Timestamp)    *)
(* are left out of the rows; every column that a key, a foreign key, a     *)
(* GROUP BY, an ORDER BY or an aggregate of the modelled queries reads is  *)
(* kept.                                                                   *)
(***************************************************************************)
EXTENDS Integers, Sequences, FiniteSets, TLC

VARIABLES
    Providers,        \* rows of table Providers
    Receivers,        \* rows of table Receivers
    Food_Listings,    \* rows of table Food_Listings
    Claims,           \* rows of table Claims
    sqlite_sequence,  \* AUTOINCREMENT high-water mark of every table
    created,          \* the CREATE TABLE statements have run
    csv_files,        \* the tables whose <table>_data.csv exists in DATA_DIR
    ingested,         \* history: the tables whose dataset was ever ingested
    last              \* the last call: its name, id argument and error, the
                      \* tables it ingested and the tables it removed rows of

vars == <<Providers, Receivers, Food_Listings, Claims, sqlite_sequence,
          created, csv_files, ingested, last>>

(***************************************************************************)
(* Bounds of the model.                                                    *)
(***************************************************************************)
MaxProviderId == 2
MaxFoodId == 2

\* SQL NULL / Python None: a value outside every id and quantity range.
NULL == -1

Names == {"A", "B"}
Quantities == {1, 2}
Dates == {[year |-> 2025, month |-> 9, day |-> 1],
          [year |-> 2025, month |-> 10, day |-> 1]}

(***************************************************************************)
(* Text values.  A TEXT value is the sequence of its character codes, and  *)
(* SQLite compares TEXT values bytewise (BINARY collation).                *)
(***************************************************************************)
Digit(n) == 48 + n
Dash == 45
Slash == 47

RECURSIVE Str(_)
Str(n) == IF n < 10 THEN <<Digit(n)>> ELSE Str(n \div 10) \o <<Digit(n % 10)>>

Pad2(n) == <<Digit(n \div 10), Digit(n % 10)>>
Pad4(n) == <<Digit(n \div 1000), Digit((n \div 100) % 10),
             Digit((n \div 10) % 10), Digit(n % 10)>>

\* How sqlite3 binds the datetime.date of st.date_input: date.isoformat().
isoformat(d) == Pad4(d.year) \o <<Dash>> \o Pad2(d.month) \o <<Dash>> \o Pad2(d.day)

\* The M/D/YYYY text of the Expiry_Date column of the dataset.
mdyformat(d) == Str(d.month) \o <<Slash>> \o Str(d.day) \o <<Slash>> \o Str(d.year)

Min(a, b) == IF a < b THEN a ELSE b

\* memcmp order of two TEXT values.
TextLess(a, b) ==
    \/ \E i \in 1..Min(Len(a), Len(b)) :
          /\ \A j \in 1..(i - 1) : a[j] = b[j]
          /\ a[i] < b[i]
    \/ /\ Len(a) < Len(b)
       /\ \A j \in 1..Len(a) : a[j] = b[j]

TextLeq(a, b) == a = b \/ TextLess(a, b)

(***************************************************************************)
(* The schema (setup_database, lines 35-40) and the connection.            *)
(***************************************************************************)
\* The tables in the order of the dict that setup_database iterates.
tables_rev == <<"Claims", "Food_Listings", "Receivers", "Providers">>
tables == <<"Providers", "Receivers", "Food_Listings", "Claims">>

TableNames == {tables[i] : i \in 1..Len(tables)}

\* PRAGMA foreign_keys = ON of get_db_connection.
foreign_keys_off == FALSE
foreign_keys == TRUE

\* The primary key column of a table.
pk(t) ==
    CASE t = "Providers" -> "Provider_ID"
      [] t = "Receivers" -> "Receiver_ID"
      [] t = "Food_Listings" -> "Food_ID"
      [] t = "Claims" -> "Claim_ID"

Ids(rows, col) == {r[col] : r \in rows}

Max(S) == IF S = {} THEN 0 ELSE CHOOSE x \in S : \A y \in S : y <= x

\* The FOREIGN KEY clauses: a row may be stored when each child key is NULL
\* or names an existing parent row.
fk_ok(s, t, r) ==
    CASE t = "Food_Listings" ->
            r.Provider_ID = NULL \/ r.Provider_ID \in Ids(s.Providers, "Provider_ID")
      [] t = "Claims" ->
            /\ r.Food_ID = NULL \/ r.Food_ID \in Ids(s.Food_Listings, "Food_ID")
            /\ r.Receiver_ID = NULL \/ r.Receiver_ID \in Ids(s.Receivers, "Receiver_ID")
      [] OTHER -> TRUE

\* ON DELETE CASCADE of Claims.Food_ID: the claims left once the listings
\* with the ids in food_ids are deleted.
cascade_claims_none(claims, food_ids) == claims
cascade_claims(claims, food_ids) ==
    IF foreign_keys THEN {c \in claims : c.Food_ID \notin food_ids} ELSE claims

\* ON DELETE CASCADE of Food_Listings.Provider_ID: the listings left once the
\* provider with id provider_id is deleted.
cascade_listings_none(listings, provider_id) == listings
cascade_listings(listings, provider_id) ==
    IF foreign_keys THEN {f \in listings : f.Provider_ID # provider_id} ELSE listings

\* The store as one value.
Store ==
    [Providers |-> Providers, Receivers |-> Receivers,
     Food_Listings |-> Food_Listings, Claims |-> Claims,
     seq |-> sqlite_sequence]

(***************************************************************************)
(* The initial datasets data/<table>_data.csv read by setup_database.      *)
(***************************************************************************)
csv_data(t) ==
    CASE t = "Providers" -> {[Provider_ID |-> 1, Name |-> "A"]}
      [] t = "Receivers" -> {[Receiver_ID |-> 1]}
      [] t = "Food_Listings" ->
            {[Food_ID |-> 1, Quantity |-> 2, Provider_ID |-> 1,
              Expiry_Date |-> mdyformat([year |-> 2025, month |-> 10, day |-> 1])],
             [Food_ID |-> 2, Quantity |-> 1, Provider_ID |-> 1,
              Expiry_Date |-> mdyformat([year |-> 2025, month |-> 9, day |-> 1])]}
      [] t = "Claims" ->
            {[Claim_ID |-> 1, Food_ID |-> 1, Receiver_ID |-> 1, Status |-> "Completed"],
             [Claim_ID |-> 2, Food_ID |-> 2, Receiver_ID |-> 1, Status |-> "Pending"],
             [Claim_ID |-> 3, Food_ID |-> 1, Receiver_ID |-> 1, Status |-> "Pending"]}

(***************************************************************************)
(* setup_database                                                          *)
(***************************************************************************)
\* df.to_sql(table_name, conn, if_exists='append'): one transaction that
\* inserts every row of the dataset, or none when a key is violated.
to_sql(s, t, rows) ==
    LET ok == /\ \A r \in rows : r[pk(t)] \notin Ids(s[t], pk(t))
              /\ \A r1, r2 \in rows : r1[pk(t)] = r2[pk(t)] => r1 = r2
              /\ foreign_keys => \A r \in rows : fk_ok(s, t, r)
    IN  IF ok
        THEN [store |-> [s EXCEPT ![t] = s[t] \cup rows,
                                  !.seq[t] = Max({s.seq[t]} \cup Ids(rows, pk(t)))],
              ok |-> TRUE]
        ELSE [store |-> s, ok |-> FALSE]

\* The body of the second loop of setup_database for one table.
load_table(acc, t) ==
    IF acc.store[t] = {} /\ t \in csv_files
    THEN LET r == to_sql(acc.store, t, csv_data(t))
         IN  IF r.ok
             THEN [acc EXCEPT !.store = r.store,
                              !.loaded = IF csv_data(t) = {} THEN @ ELSE @ \cup {t}]
             ELSE [acc EXCEPT !.failed = @ \cup {t}]
    ELSE acc

RECURSIVE load_tables(_, _)
load_tables(acc, i) ==
    IF i > Len(tables) THEN acc
    ELSE load_tables(load_table(acc, tables[i]), i + 1)

\* setup_database(conn): the resulting store, the tables it ingested, the
\* tables whose load it reported with st.error, and whether it raised.
setup_database(s) ==
    load_tables([store |-> s, loaded |-> {}, failed |-> {}, raised |-> FALSE], 1)

(***************************************************************************)
(* CRUD functions                                                          *)
(***************************************************************************)
add_provider(s, name) ==
    LET id == s.seq["Providers"] + 1
    IN  [s EXCEPT !.Providers = @ \cup {[Provider_ID |-> id, Name |-> name]},
                  !.seq["Providers"] = id]

add_food_listing(s, quantity, expiry_date, provider_id) ==
    LET id == s.seq["Food_Listings"] + 1
        row == [Food_ID |-> id, Quantity |-> quantity,
                Expiry_Date |-> isoformat(expiry_date), Provider_ID |-> provider_id]
    IN  IF foreign_keys /\ ~fk_ok(s, "Food_Listings", row)
        THEN [store |-> s, err |-> "IntegrityError"]
        ELSE [store |-> [s EXCEPT !.Food_Listings = @ \cup {row},
                                  !.seq["Food_Listings"] = id],
              err |-> ""]

delete_listing(s, food_id) ==
    LET gone == {r \in s.Food_Listings : r.Food_ID = food_id}
    IN  [s EXCEPT !.Food_Listings = @ \ gone,
                  !.Claims = cascade_claims(@, Ids(gone, "Food_ID"))]

delete_provider(s, provider_id) ==
    LET left == cascade_listings(s.Food_Listings, provider_id)
        gone == s.Food_Listings \ left
    IN  [s EXCEPT !.Providers = {r \in @ : r.Provider_ID # provider_id},
                  !.Food_Listings = left,
                  !.Claims = cascade_claims(@, Ids(gone, "Food_ID"))]

(***************************************************************************)
(* Queries of the pages                                                    *)
(***************************************************************************)
\* The sequences that list every element of S once.
Perms(S) ==
    {f \in [1..Cardinality(S) -> S] :
        \A i, j \in 1..Cardinality(S) : f[i] = f[j] => i = j}

Prefix(q, n) == SubSeq(q, 1, Min(n, Len(q)))

RECURSIVE sum_quantity(_)
sum_quantity(rows) ==
    IF rows = {} THEN 0
    ELSE LET r == CHOOSE x \in rows : TRUE
         IN  r.Quantity + sum_quantity(rows \ {r})

\* SQL SUM(Quantity): NULL over no rows.
sql_sum(rows) == IF rows = {} THEN NULL ELSE sum_quantity(rows)

\* "View All Food Listings":
\* SELECT * FROM Food_Listings ORDER BY Expiry_Date ASC.
\* Every order SQLite may return: rows with equal keys come in any order.
all_listings(s) ==
    {q \in Perms(s.Food_Listings) :
        \A i \in 1..(Len(q) - 1) : TextLeq(q[i].Expiry_Date, q[i + 1].Expiry_Date)}

\* Report 4: SELECT SUM(Quantity) AS TotalQuantity FROM Food_Listings, and
\* int(total_quantity_available['TotalQuantity'][0]) behind the guard
\* "not total_quantity_available.empty", which a one-row result passes.
total_quantity_available(s) ==
    LET v == sql_sum(s.Food_Listings)
    IN  IF v = NULL THEN [err |-> "TypeError", value |-> NULL]
        ELSE [err |-> "", value |-> v]

\* Report 8 (subheader 10): SELECT Status, COUNT(Claim_ID) AS Count FROM Claims
\* GROUP BY Status.
claim_status_completed(s) ==
    {[Status |-> st, Count |-> Cardinality({c \in s.Claims : c.Status = st})] :
        st \in {c.Status : c \in {x \in s.Claims : x.Status = "Completed"}}}
claim_status(s) ==
    {[Status |-> st, Count |-> Cardinality({c \in s.Claims : c.Status = st})] :
        st \in {c.Status : c \in s.Claims}}

\* LIMIT 10 of the top-10 reports.
Limit == 10

\* Report 11 (subheader 13): SELECT p.Name, SUM(fl.Quantity) as TotalQuantity
\* FROM Providers p JOIN Food_Listings fl ON p.Provider_ID = fl.Provider_ID
\* GROUP BY p.Name ORDER BY TotalQuantity DESC LIMIT 10.
provider_donations(s) ==
    LET joined(n) == {f \in s.Food_Listings :
                        \E p \in s.Providers :
                            p.Name = n /\ p.Provider_ID = f.Provider_ID}
        groups == {[Name |-> n, TotalQuantity |-> sum_quantity(joined(n))] :
                      n \in {p.Name : p \in {x \in s.Providers :
                                 \E f \in s.Food_Listings :
                                     f.Provider_ID = x.Provider_ID}}}
    IN  {Prefix(q, Limit) : q \in {o \in Perms(groups) :
            \A i \in 1..(Len(o) - 1) : o[i].TotalQuantity >= o[i + 1].TotalQuantity}}

\* provider_dict = dict(zip(provider_list['Name'], provider_list['Provider_ID']))
\* of the add-listing form: a later row replaces an earlier one of that name.
provider_dict(s) ==
    [n \in {p.Name : p \in s.Providers} |->
        Max({p.Provider_ID : p \in {x \in s.Providers : x.Name = n}})]

(***************************************************************************)
(* The state machine                                                       *)
(***************************************************************************)
Init ==
    /\ Providers = {}
    /\ Receivers = {}
    /\ Food_Listings = {}
    /\ Claims = {}
    /\ sqlite_sequence = [t \in TableNames |-> 0]
    /\ created = FALSE
    /\ csv_files \in SUBSET TableNames
    /\ ingested = {}
    /\ last = [op |-> "connect", arg |-> NULL, err |-> "", loaded |-> {},
               removed |-> {}]

\* The tables that have fewer rows in store t than in the current store.
Removed(t) == {n \in TableNames : Store[n] \ t[n] # {}}

Commit(t) ==
    /\ Providers' = t.Providers
    /\ Receivers' = t.Receivers
    /\ Food_Listings' = t.Food_Listings
    /\ Claims' = t.Claims
    /\ sqlite_sequence' = t.seq

Called(op, arg, err, t) ==
    last' = [op |-> op, arg |-> arg, err |-> err, loaded |-> {},
             removed |-> Removed(t)]

\* main(), lines 85-87: every run of the script starts with setup_database.
run_setup_database ==
    LET r == setup_database(Store)
    IN  /\ Commit(r.store)
        /\ created' = TRUE
        /\ ingested' = ingested \cup r.loaded
        /\ last' = [op |-> "setup_database", arg |-> NULL, err |-> "",
                    loaded |-> r.loaded, removed |-> {}]
        /\ UNCHANGED csv_files

\* The add-provider form, lines 112-121.
call_add_provider ==
    /\ created
    /\ sqlite_sequence["Providers"] < MaxProviderId
    /\ \E name \in Names :
          LET t == add_provider(Store, name)
          IN  Commit(t) /\ Called("add_provider", NULL, "", t)
    /\ UNCHANGED <<created, csv_files, ingested>>

\* add_food_listing called with any provider id.
call_add_food_listing ==
    /\ created
    /\ sqlite_sequence["Food_Listings"] < MaxFoodId
    /\ \E quantity \in Quantities, expiry_date \in Dates,
          provider_id \in 1..(MaxProviderId + 1) :
          LET r == add_food_listing(Store, quantity, expiry_date, provider_id)
          IN  Commit(r.store) /\ Called("add_food_listing", provider_id, r.err, r.store)
    /\ UNCHANGED <<created, csv_files, ingested>>

\* The add-listing form, lines 126-147: the provider id is looked up from the
\* selected name, and is None when the select box has no option.
submit_add_food_listing_form ==
    /\ created
    /\ sqlite_sequence["Food_Listings"] < MaxFoodId
    /\ LET provider_dict_ == provider_dict(Store)
           \* st.selectbox returns None when it has no option, and
           \* provider_dict.get(None) is None.
           provider_ids == IF DOMAIN provider_dict_ = {} THEN {NULL}
                           ELSE {provider_dict_[n] : n \in DOMAIN provider_dict_}
       IN  \E quantity \in Quantities, expiry_date \in Dates,
              provider_id \in provider_ids :
             LET r == add_food_listing(Store, quantity, expiry_date, provider_id)
             IN  Commit(r.store) /\ Called("add_food_listing_form", provider_id, r.err, r.store)
    /\ UNCHANGED <<created, csv_files, ingested>>

\* The delete-listing button, lines 164-168, and delete_listing with any id.
call_delete_listing ==
    /\ created
    /\ \E food_id \in 1..MaxFoodId :
          LET t == delete_listing(Store, food_id)
          IN  Commit(t) /\ Called("delete_listing", food_id, "", t)
    /\ UNCHANGED <<created, csv_files, ingested>>

\* The delete-provider button, lines 178-182, and delete_provider with any id.
call_delete_provider ==
    /\ created
    /\ \E provider_id \in 1..MaxProviderId :
          LET t == delete_provider(Store, provider_id)
          IN  Commit(t) /\ Called("delete_provider", provider_id, "", t)
    /\ UNCHANGED <<created, csv_files, ingested>>

\* The "View Records" tab, lines 149-152.
view_records ==
    /\ created
    /\ Called("view_records", NULL, "", Store)
    /\ UNCHANGED <<Providers, Receivers, Food_Listings, Claims, sqlite_sequence,
                   created, csv_files, ingested>>

\* The "Data Analysis" page, lines 184-238: report 4 raises before the later
\* reports are computed when its total is None.
data_analysis ==
    /\ created
    /\ Called("data_analysis", NULL, total_quantity_available(Store).err, Store)
    /\ UNCHANGED <<Providers, Receivers, Food_Listings, Claims, sqlite_sequence,
                   created, csv_files, ingested>>

Next ==
    \/ run_setup_database
    \/ call_add_provider
    \/ call_add_food_listing
    \/ submit_add_food_listing_form
    \/ call_delete_listing
    \/ call_delete_provider
    \/ view_records
    \/ data_analysis

Spec == Init /\ [][Next]_vars

(***************************************************************************)
(* Properties                                                              *)
(***************************************************************************)
ProviderIds == Ids(Providers, "Provider_ID")
FoodIds == Ids(Food_Listings, "Food_ID")

\* C1: deleting an existing provider removes it, every listing it owns and
\* every claim on such a listing, and changes no other provider, listing,
\* claim or receiver.
C1_DeleteProviderCascade ==
    \A p \in Providers :
        LET t == delete_provider(Store, p.Provider_ID)
            gone == {f \in Food_Listings : f.Provider_ID = p.Provider_ID}
        IN  /\ \A x \in t.Providers : x.Provider_ID # p.Provider_ID
            /\ \A f \in t.Food_Listings : f.Provider_ID # p.Provider_ID
            /\ \A c \in t.Claims : c.Food_ID \notin Ids(gone, "Food_ID")
            /\ t.Providers = Providers \ {p}
            /\ t.Food_Listings = Food_Listings \ gone
            /\ t.Claims = {c \in Claims : c.Food_ID \notin Ids(gone, "Food_ID")}
            /\ t.Receivers = Receivers

\* delete_provider has just removed a provider, listings and claims, and
\* another provider with a listing and a claim is left.
C1_Witness ==
    /\ last.op = "delete_provider"
    /\ last.removed = {"Providers", "Food_Listings", "Claims"}
    /\ last.arg \notin ProviderIds
    /\ Providers # {}
    /\ Food_Listings # {}
    /\ Claims # {}

\* C2: add_food_listing with a provider id that no Providers row has fails
\* with a referential error and leaves every table as it was.
C2_AddListingUnknownProvider ==
    \A provider_id \in 1..(MaxProviderId + 1), quantity \in Quantities,
       expiry_date \in Dates :
        provider_id \notin ProviderIds =>
            LET r == add_food_listing(Store, quantity, expiry_date, provider_id)
            IN  r.err = "IntegrityError" /\ r.store = Store

\* add_food_listing has just failed for the id of a provider deleted earlier.
C2_Witness ==
    /\ last.op = "add_food_listing"
    /\ last.err = "IntegrityError"
    /\ last.arg \in 1..sqlite_sequence["Providers"]
    /\ last.arg \notin ProviderIds
    /\ Providers # {}

\* C3: report 4 yields the sum of Quantity over the current listings, 0 when
\* there is none, and never an error.
C3_TotalQuantityIsSum ==
    last.op = "data_analysis" =>
        /\ last.err = ""
        /\ total_quantity_available(Store).value = sum_quantity(Food_Listings)

\* The calendar date that a stored Expiry_Date text denotes.
DateOf(text) ==
    CHOOSE d \in Dates : text = isoformat(d) \/ text = mdyformat(d)

DateLeq(d, e) ==
    \/ d.year < e.year
    \/ d.year = e.year /\ d.month < e.month
    \/ d.year = e.year /\ d.month = e.month /\ d.day <= e.day

\* C4: the listing view returns every current listing exactly once, in
\* non-decreasing order of expiry date.
C4_ListingsByExpiryDate ==
    last.op = "view_records" =>
        \A q \in all_listings(Store) :
            /\ Len(q) = Cardinality(Food_Listings)
            /\ {q[i] : i \in 1..Len(q)} = Food_Listings
            /\ \A i \in 1..(Len(q) - 1) :
                  DateLeq(DateOf(q[i].Expiry_Date), DateOf(q[i + 1].Expiry_Date))

\* C5: from every store state a second run of setup_database right after a
\* first one raises nothing, ingests nothing and leaves all rows as the first
\* run left them.
C5_SetupIdempotent ==
    LET first == setup_database(Store)
        second == setup_database(first.store)
    IN  /\ second.store = first.store
        /\ second.loaded = {}
        /\ ~second.raised

\* setup_database has just run on the store that an earlier run filled from
\* all four datasets, and has ingested nothing.
C5_Witness ==
    /\ last.op = "setup_database"
    /\ last.loaded = {}
    /\ ingested = TableNames
    /\ \A t \in TableNames : Store[t] = csv_data(t)

\* C6: the dataset of a table is ingested by at most one run of
\* setup_database.
C6_IngestedAtMostOnce ==
    [][\A t \in TableNames :
          (last'.op = "setup_database" /\ t \in last'.loaded) => t \notin ingested]_vars

\* C7: delete_listing removes the listing with the id and the claims on it
\* and nothing else; for an id that no listing has it changes nothing.
C7_DeleteListingFrame ==
    \A food_id \in 1..(MaxFoodId + 1) :
        LET t == delete_listing(Store, food_id)
        IN  /\ t.Food_Listings = {f \in Food_Listings : f.Food_ID # food_id}
            /\ t.Claims = {c \in Claims : c.Food_ID # food_id}
            /\ t.Providers = Providers
            /\ t.Receivers = Receivers
            /\ food_id \notin FoodIds => t = Store

\* delete_listing has just removed a listing and its claims, and another
\* listing with a claim is left.
C7_Witness ==
    /\ last.op = "delete_listing"
    /\ last.removed = {"Food_Listings", "Claims"}
    /\ last.arg \notin FoodIds
    /\ Food_Listings # {}
    /\ Claims # {}

RECURSIVE sum_count(_)
sum_count(rows) ==
    IF rows = {} THEN 0
    ELSE LET r == CHOOSE x \in rows : TRUE
         IN  r.Count + sum_count(rows \ {r})

\* C8: report 8 has one row for each status present in Claims, its counts
\* sum to the number of Claims rows, and it is empty when Claims is empty.
C8_StatusDistribution ==
    LET rows == claim_status(Store)
    IN  /\ \A st \in {c.Status : c \in Claims} :
              Cardinality({r \in rows : r.Status = st}) = 1
        /\ \A r \in rows : r.Status \in {c.Status : c \in Claims}
        /\ sum_count(rows) = Cardinality(Claims)
        /\ Claims = {} => rows = {}

\* The analysis page has just shown report 8 over claims of two statuses,
\* one of them with two claims.
C8_Witness ==
    /\ last.op = "data_analysis"
    /\ last.err = ""
    /\ Cardinality(claim_status(Store)) = 2
    /\ \E r \in claim_status(Store) : r.Count = 2

\* C9: every listing names an existing provider, and every claim names an
\* existing listing and an existing receiver.
C9_ReferentialIntegrity ==
    /\ \A f \in Food_Listings : f.Provider_ID \in ProviderIds
    /\ \A c \in Claims :
          /\ c.Food_ID \in FoodIds
          /\ c.Receiver_ID \in Ids(Receivers, "Receiver_ID")

\* C10: report 11 has at most 10 rows in non-increasing order of total, one
\* row for each provider that owns a listing, each with the sum of Quantity
\* over the listings of that one provider.
C10_DonationsPerProvider ==
    (last.op = "data_analysis" /\ last.err = "") =>
        LET owned(p) == {f \in Food_Listings : f.Provider_ID = p.Provider_ID}
            owners == {p \in Providers : owned(p) # {}}
        IN  \A q \in provider_donations(Store) :
                /\ Len(q) <= 10
                /\ \A i \in 1..(Len(q) - 1) :
                      q[i].TotalQuantity >= q[i + 1].TotalQuantity
                /\ Len(q) = Min(10, Cardinality(owners))
                /\ \A i \in 1..Len(q) :
                      \E p \in owners :
                          /\ q[i].Name = p.Name
                          /\ q[i].TotalQuantity = sum_quantity(owned(p))

====
